---------------------------- MODULE Spec2Model ----------------------------
(***************************************************************************)
(* A top-to-bottom run of student_performance_clarify.ipynb: the table is  *)
(* read, preprocessed by _preprocess_data, split, written to CSV and       *)
(* uploaded, and the remote jobs are submitted one cell after the other.   *)
(*                                                                         *)
(* Cell values are written as their text ("16", "F", "1"); NaN is the      *)
(* missing value of pandas.  A Series is the sequence of its values in row *)
(* order; a DataFrame is a record of its column names, its index labels    *)
(* and its rows.                                                           *)
(***************************************************************************)
EXTENDS Integers, Sequences, FiniteSets, TLC

VARIABLES source, pc, inflight, data, X, y, df, train_data, validation_data,
          local, s3, configs, log, model, endpoint

vars == << source, pc, inflight, data, X, y, df, train_data, validation_data,
           local, s3, configs, log, model, endpoint >>

(***************************************************************************)
(* Bounds of the model.                                                    *)
(***************************************************************************)
\* Tables of up to MaxRows rows are enumerated with every variant row.
MaxRows == 3
\* Tables of up to MaxSplitRows rows are enumerated with plain rows only.
MaxSplitRows == 6

(***************************************************************************)
(* pandas values and frames                                                *)
(***************************************************************************)
NaN == "NaN"

NoFrame == [columns |-> << >>, index |-> << >>, values |-> << >>]

Range(s) == {s[i] : i \in DOMAIN s}

\* students.columns = [...]: the 32 names, given to the columns by position.
ColumnNames ==
    << "Gender", "Age", "Address", "FamilySize", "ParentCohabStatus",
       "MotherEducation", "FatherEducation", "MotherJob", "FatherJob",
       "SchoolChoiceReason", "Guardian", "TravelTime", "StudyTime",
       "Failures", "SchoolSup", "FamilySup", "ExtraPaidClasses",
       "ExtraActivities", "Nursery", "WantsHigherEdu", "HasInternet",
       "Romantic", "FamilyRelQuality", "FreeTime", "GoOut",
       "WorkdayAlcohol", "WeekendAlcohol", "HealthStatus", "Absences",
       "FirstGrade", "SecondGrade", "FinalGrade" >>

Pos(name) == CHOOSE i \in DOMAIN ColumnNames : ColumnNames[i] = name

\* students.<name>: the column of that name, as a Series.
Column(students, name) ==
    LET p == Pos(name)
    IN  [i \in 1..Len(students) |-> students[i][p]]

\* pd.DataFrame(series): one column, the RangeIndex 0..n-1 of the table.
DataFrame(name, series) ==
    [columns |-> << name >>,
     index   |-> [i \in 1..Len(series) |-> i - 1],
     values  |-> [i \in 1..Len(series) |-> << series[i] >>]]

\* pd.concat([df, res], axis=1, sort=False) of frames over the same index.
Concat(frame, res) ==
    [columns |-> frame.columns \o res.columns,
     index   |-> frame.index,
     values  |-> [i \in 1..Len(frame.values) |-> frame.values[i] \o res.values[i]]]

\* A map that gives 0 for a value that is no key.
MapDefaultZero(series, dict) ==
    [i \in 1..Len(series) |->
        IF series[i] \in DOMAIN dict THEN dict[series[i]] ELSE "0"]

\* Series.map(dict): the value of a key, NaN for a value that is no key.
Map(series, dict) ==
    [i \in 1..Len(series) |->
        IF series[i] \in DOMAIN dict THEN dict[series[i]] ELSE NaN]

\* The values of the nominal columns in sorted order: get_dummies orders
\* its columns by the sorted distinct values.
Categories ==
    << "at_home", "course", "health", "home", "other", "reputation",
       "services", "teacher" >>

\* get_dummies with drop_first=True: the first category gets no column.
GetDummiesDropFirst(series, prefix) ==
    LET all  == SelectSeq(Categories, LAMBDA v : v \in Range(series))
        cats == IF all = << >> THEN all ELSE Tail(all)
    IN  [columns |-> [k \in 1..Len(cats) |-> prefix \o "_" \o cats[k]],
         index   |-> [i \in 1..Len(series) |-> i - 1],
         values  |-> [i \in 1..Len(series) |->
                        [k \in 1..Len(cats) |->
                            IF series[i] = cats[k] THEN "1" ELSE "0"]]]

\* pd.get_dummies(series, prefix=p): one column p_<value> per distinct
\* value; a missing value is no category (dummy_na=False) and sets nothing.
get_dummies(series, prefix) ==
    LET cats == SelectSeq(Categories, LAMBDA v : v \in Range(series))
    IN  [columns |-> [k \in 1..Len(cats) |-> prefix \o "_" \o cats[k]],
         index   |-> [i \in 1..Len(series) |-> i - 1],
         values  |-> [i \in 1..Len(series) |->
                        [k \in 1..Len(cats) |->
                            IF series[i] = cats[k] THEN "1" ELSE "0"]]]

\* frame.drop([name], axis=1)
Drop(frame, name) ==
    LET keep == {k \in DOMAIN frame.columns : frame.columns[k] # name}
        Sel(row) == SelectSeq([k \in DOMAIN row |-> << k, row[k] >>],
                              LAMBDA p : p[1] \in keep)
    IN  [columns |-> SelectSeq(frame.columns, LAMBDA c : c # name),
         index   |-> frame.index,
         values  |-> [i \in 1..Len(frame.values) |->
                        [j \in 1..Len(Sel(frame.values[i])) |->
                            Sel(frame.values[i])[j][2]]]]

\* frame.<name>: the first column of that name, as a Series.
FrameColumn(frame, name) ==
    LET k == CHOOSE j \in DOMAIN frame.columns :
                 /\ frame.columns[j] = name
                 /\ \A h \in 1..(j - 1) : frame.columns[h] # name
    IN  [i \in 1..Len(frame.values) |-> frame.values[i][k]]

(***************************************************************************)
(* _preprocess_data                                                        *)
(***************************************************************************)
YesNo == ("yes" :> "1" @@ "no" :> "0")

\* The statements of _preprocess_data after the first, in order: a column
\* mapped through a dictionary, a column taken as it is, or a column
\* expanded by get_dummies; each result is concatenated to df.
Statements ==
    << [op |-> "map",     col |-> "Gender",  dict |-> ("F" :> "1" @@ "M" :> "0")],
       [op |-> "copy",    col |-> "Age",     dict |-> << >>],
       [op |-> "map",     col |-> "Address", dict |-> ("U" :> "1" @@ "R" :> "0")],
       [op |-> "map",     col |-> "FamilySize",
                          dict |-> ("LE3" :> "1" @@ "GT3" :> "0")],
       [op |-> "map",     col |-> "ParentCohabStatus",
                          dict |-> ("T" :> "1" @@ "A" :> "0")],
       [op |-> "copy",    col |-> "MotherEducation",    dict |-> << >>],
       [op |-> "copy",    col |-> "FatherEducation",    dict |-> << >>],
       [op |-> "dummies", col |-> "MotherJob",          dict |-> << >>],
       [op |-> "dummies", col |-> "FatherJob",          dict |-> << >>],
       [op |-> "dummies", col |-> "SchoolChoiceReason", dict |-> << >>],
       [op |-> "copy",    col |-> "TravelTime",         dict |-> << >>],
       [op |-> "copy",    col |-> "StudyTime",          dict |-> << >>],
       [op |-> "copy",    col |-> "Failures",           dict |-> << >>],
       [op |-> "map",     col |-> "SchoolSup",          dict |-> YesNo],
       [op |-> "map",     col |-> "FamilySup",          dict |-> YesNo],
       [op |-> "map",     col |-> "ExtraPaidClasses",   dict |-> YesNo],
       [op |-> "map",     col |-> "Nursery",            dict |-> YesNo],
       [op |-> "map",     col |-> "WantsHigherEdu",     dict |-> YesNo],
       [op |-> "map",     col |-> "HasInternet",        dict |-> YesNo],
       [op |-> "map",     col |-> "Romantic",           dict |-> YesNo],
       [op |-> "copy",    col |-> "FamilyRelQuality",   dict |-> << >>],
       [op |-> "copy",    col |-> "FreeTime",           dict |-> << >>],
       [op |-> "copy",    col |-> "GoOut",              dict |-> << >>],
       [op |-> "copy",    col |-> "WorkdayAlcohol",     dict |-> << >>],
       [op |-> "copy",    col |-> "WeekendAlcohol",     dict |-> << >>],
       [op |-> "copy",    col |-> "HealthStatus",       dict |-> << >>],
       [op |-> "copy",    col |-> "Absences",           dict |-> << >>] >>

\* The statements with the two period grades appended as well.
StatementsWithGrades ==
    Statements \o << [op |-> "copy", col |-> "FirstGrade",  dict |-> << >>],
                     [op |-> "copy", col |-> "SecondGrade", dict |-> << >>] >>

\* The statements that _preprocess_data executes.
Body == Statements

\* res of one statement, as a frame over the index of students.
Result(students, st) ==
    CASE st.op = "map"     -> DataFrame(st.col, Map(Column(students, st.col), st.dict))
      [] st.op = "copy"    -> DataFrame(st.col, Column(students, st.col))
      [] st.op = "dummies" -> get_dummies(Column(students, st.col), st.col)

\* df = pd.DataFrame(students.FinalGrade): the target is the first column.
FirstColumn(students) ==
    DataFrame("FinalGrade", Column(students, "FinalGrade"))

RECURSIVE Run(_, _, _)
Run(students, frame, k) ==
    IF k > Len(Body) THEN frame
    ELSE Run(students, Concat(frame, Result(students, Body[k])), k + 1)

\* X, y, df = _preprocess_data(students)
_preprocess_data(students) ==
    LET d == Run(students, FirstColumn(students), 1)
    IN  [X |-> Drop(d, "FinalGrade"), y |-> FrameColumn(d, "FinalGrade"), df |-> d]


(***************************************************************************)
(* train_test_split(df, test_size=0.2, random_state=42)                    *)
(***************************************************************************)
\* test_size, in percent.
TestSizePercent == 20

\* test_size * n_samples rounded down.
NTestFloor(n) == (TestSizePercent * n) \div 100

\* n_test = ceil(test_size * n_samples)
NTest(n) == (TestSizePercent * n + 99) \div 100

\* frame.iloc[idx]: the rows at the positions idx, with their index labels.
Take(frame, idx) ==
    [columns |-> frame.columns,
     index   |-> [i \in 1..Len(idx) |-> frame.index[idx[i]]],
     values  |-> [i \in 1..Len(idx) |-> frame.values[idx[i]]]]

\* The shuffle of random_state=42 is one permutation of the positions; the
\* first n_test of it are the test rows, the next n_train the train rows.
train_test_split(frame, perm) ==
    LET n       == Len(frame.index)
        n_test  == NTest(n)
        n_train == n - n_test
    IN  [train |-> Take(frame, [i \in 1..n_train |-> perm[n_test + i]]),
         test  |-> Take(frame, [i \in 1..n_test |-> perm[i]])]

(***************************************************************************)
(* DataFrame.to_csv(path, index=False)                                     *)
(***************************************************************************)
\* to_csv without index=False: the index labels are the first field.
ToCsvWithIndex(frame) ==
    [kind   |-> "csv",
     header |-> << "" >> \o frame.columns,
     lines  |-> [i \in 1..Len(frame.values) |->
                    << ToString(frame.index[i]) >> \o frame.values[i]]]

\* A column that holds a missing value is a float column: its numbers are
\* written with a decimal point, the missing value as the empty field.
to_csv(frame) ==
    LET Float(k) == \E i \in DOMAIN frame.values : frame.values[i][k] = NaN
        Field(k, v) == IF v = NaN THEN ""
                       ELSE IF Float(k) THEN v \o ".0" ELSE v
    IN  [kind   |-> "csv",
         header |-> frame.columns,
         lines  |-> [i \in 1..Len(frame.values) |->
                        [k \in 1..Len(frame.columns) |->
                            Field(k, frame.values[i][k])]]]

(***************************************************************************)
(* The cells of the notebook, in the order of a top-to-bottom run          *)
(***************************************************************************)
Cells ==
    << "read_csv", "preprocess", "split", "upload_train", "upload_validation",
       "data_config", "pre_training_bias", "download_pretrain", "fit",
       "describe", "deploy", "post_training_bias", "download_posttrain",
       "shap_config", "explainability", "download_explainability",
       "delete_model", "delete_endpoint", "rm_local", "done" >>

\* The cells with the cleanup cell ahead of the explainability cells.
CellsCleanupEarly ==
    << "read_csv", "preprocess", "split", "upload_train", "upload_validation",
       "data_config", "pre_training_bias", "download_pretrain", "fit",
       "describe", "deploy", "post_training_bias", "download_posttrain",
       "delete_model", "delete_endpoint",
       "shap_config", "explainability", "download_explainability",
       "rm_local", "done" >>

\* The order in which the run executes the cells.
Program == Cells

After(c) ==
    LET k == CHOOSE i \in DOMAIN Program : Program[i] = c
    IN  Program[k + 1]

\* The statements that call a remote service and wait for its answer.
RemoteSteps ==
    { "read_csv", "upload_train", "upload_validation", "pre_training_bias",
      "download_pretrain", "fit", "describe", "deploy", "post_training_bias",
      "download_posttrain", "explainability", "download_explainability",
      "delete_model", "delete_endpoint" }

\* The Clarify jobs and the report each one leaves under its output path.
ReportOf ==
    ( "pre_training_bias"  :> "clarify-pretrain-bias" @@
      "post_training_bias" :> "clarify-posttrain-bias" @@
      "explainability"     :> "clarify-explainability" )

\* The download cells and the output path each one fetches.
Fetches ==
    ( "download_pretrain"       :> "clarify-pretrain-bias" @@
      "download_posttrain"      :> "clarify-posttrain-bias" @@
      "download_explainability" :> "clarify-explainability" )

\* clarify.DataConfig(s3_data_input_path=train_data_s3_path,
\*                    label="FinalGrade", headers=train_data.columns.to_list())
DataConfig(frame) ==
    [input |-> "train/train_data.csv", label |-> "FinalGrade",
     headers |-> frame.columns]

Event(e, step) == [ev |-> e, step |-> step]

(***************************************************************************)
(* The tables the run is checked on                                        *)
(***************************************************************************)
PlainA ==
    << "F", "16", "U", "LE3", "T", "4", "4", "teacher", "teacher", "home",
       "mother", "1", "2", "0", "yes", "yes", "yes", "yes", "yes", "yes",
       "yes", "yes", "4", "3", "2", "1", "1", "5", "6", "14", "15", "16" >>

PlainB ==
    << "M", "17", "R", "GT3", "A", "1", "2", "health", "other", "course",
       "father", "2", "1", "1", "no", "no", "no", "no", "no", "no",
       "no", "no", "3", "3", "3", "2", "2", "3", "4", "9", "10", "10" >>

MappedColumns == {st.col : st \in {s \in Range(Statements) : s.op = "map"}}

OneHotColumns == {st.col : st \in {s \in Range(Statements) : s.op = "dummies"}}

\* PlainA with one cell replaced: a value that is no key of the column's
\* dictionary, or a missing value.
VariantRows ==
    {[PlainA EXCEPT ![Pos(c)] = v] : c \in MappedColumns, v \in {"?", NaN}}
        \cup {[PlainA EXCEPT ![Pos(c)] = NaN] : c \in OneHotColumns}

\* Row k of a table below its first row.
Plain(k) == IF k % 2 = 0 THEN PlainB ELSE PlainA

\* The tables of up to MaxRows rows whose first row is any of the rows.
Tables ==
    {<< >>}
        \cup {[k \in 1..n |-> IF k = 1 THEN r ELSE Plain(k)] :
                 n \in 1..MaxRows, r \in VariantRows \cup {PlainA, PlainB}}

\* The tables of up to MaxSplitRows plain rows.
PlainTables == {[k \in 1..n |-> Plain(k)] : n \in 0..MaxSplitRows}

(***************************************************************************)
(* The run                                                                 *)
(***************************************************************************)
Start ==
    /\ pc = "read_csv"
    /\ inflight = "none"
    /\ data = << >>
    /\ X = NoFrame
    /\ y = << >>
    /\ df = NoFrame
    /\ train_data = NoFrame
    /\ validation_data = NoFrame
    /\ local = << >>
    /\ s3 = << >>
    /\ configs = << >>
    /\ log = << >>
    /\ model = FALSE
    /\ endpoint = FALSE

Init == source \in Tables /\ Start

InitSplit == source \in PlainTables /\ Start

Frames == << data, X, y, df, train_data, validation_data >>

\* A statement that calls a remote service: the call is made and the cell
\* waits for its answer.
Call(step) ==
    /\ pc = step
    /\ inflight = "none"
    /\ inflight' = step
    /\ log' = Append(log, Event("call", step))
    /\ UNCHANGED << source, pc, Frames, s3, model, endpoint >>

\* The answer of a remote call: the run goes on with the next cell.
Return(step) ==
    /\ inflight = step
    /\ inflight' = "none"
    /\ pc' = After(step)
    /\ log' = Append(log, Event("return", step))
    /\ UNCHANGED source

\* An exception handled by deleting the model and the endpoint.
StopAndCleanUp(step) ==
    /\ pc' = "halted"
    /\ inflight' = "none"
    /\ log' = Append(log, Event("raise", step))
    /\ model' = FALSE
    /\ endpoint' = FALSE
    /\ UNCHANGED << source, Frames, local, s3, configs >>

\* An exception leaves the cell, nothing catches it, and the run stops.
\* A deploy that fails may already have created the model, or the model
\* and the endpoint.
Stop(step) ==
    /\ pc' = "halted"
    /\ inflight' = "none"
    /\ log' = Append(log, Event("raise", step))
    /\ IF step = "deploy"
       THEN \E created \in {<< model, endpoint >>, << TRUE, endpoint >>,
                             << TRUE, TRUE >>} :
               /\ model' = created[1]
               /\ endpoint' = created[2]
       ELSE UNCHANGED << model, endpoint >>
    /\ UNCHANGED << source, Frames, local, s3, configs >>

\* data = pd.read_csv("s3://sagemaker-sample-files/.../student-mat.csv")
ReadCsv ==
    /\ Call("read_csv")
    /\ UNCHANGED << local, configs >>

ReadCsvReturn ==
    /\ Return("read_csv")
    /\ data' = source
    /\ UNCHANGED << X, y, df, train_data, validation_data, local, s3,
                    configs, model, endpoint >>

\* X, y, df = _preprocess_data(data)
Preprocess ==
    /\ pc = "preprocess"
    /\ LET r == _preprocess_data(data)
       IN  /\ X' = r.X
           /\ y' = r.y
           /\ df' = r.df
    /\ pc' = After("preprocess")
    /\ UNCHANGED << source, inflight, data, train_data, validation_data,
                    local, s3, configs, log, model, endpoint >>

\* train_data, validation_data = train_test_split(df, test_size=0.2, ...)
Split ==
    /\ pc = "split"
    /\ Len(df.index) - NTest(Len(df.index)) > 0
    /\ \E perm \in Permutations(1..Len(df.index)) :
          LET r == train_test_split(df, perm)
          IN  /\ train_data' = r.train
              /\ validation_data' = r.test
    /\ pc' = After("split")
    /\ UNCHANGED << source, inflight, data, X, y, df, local, s3, configs,
                    log, model, endpoint >>

\* ValueError: with test_size=0.2 the resulting train set would be empty.
SplitRaise ==
    /\ pc = "split"
    /\ Len(df.index) - NTest(Len(df.index)) = 0
    /\ Stop("split")

\* train_data.to_csv("train_data.csv", index=False); S3Uploader.upload(...)
UploadTrain ==
    /\ Call("upload_train")
    /\ local' = ("train_data.csv" :> to_csv(train_data)) @@ local
    /\ UNCHANGED configs

UploadTrainReturn ==
    /\ Return("upload_train")
    /\ s3' = ("train/train_data.csv" :> local["train_data.csv"]) @@ s3
    /\ UNCHANGED << Frames, local, configs, model, endpoint >>

\* validation_data.to_csv("validation_data.csv", index=False); upload
UploadValidation ==
    /\ Call("upload_validation")
    /\ local' = ("validation_data.csv" :> to_csv(validation_data)) @@ local
    /\ UNCHANGED configs

UploadValidationReturn ==
    /\ Return("upload_validation")
    /\ s3' = ("validation/validation_data.csv" :> local["validation_data.csv"]) @@ s3
    /\ UNCHANGED << Frames, local, configs, model, endpoint >>

\* data_config = clarify.DataConfig(..., headers=train_data.columns.to_list())
DefineDataConfig ==
    /\ pc = "data_config"
    /\ configs' = ("data_config" :> DataConfig(train_data)) @@ configs
    /\ pc' = After("data_config")
    /\ UNCHANGED << source, inflight, Frames, local, s3, log, model, endpoint >>

\* clarify_processor.run_pre_training_bias(data_config=data_config, ...)
\* clarify_processor.run_explainability(data_config=explainability_data_config, ...)
RunClarify ==
    \E step \in {"pre_training_bias", "explainability"} :
        /\ Call(step)
        /\ UNCHANGED << local, configs >>

\* bias_posttrain_data_config = clarify.DataConfig(...)
\* model_config = clarify.ModelConfig(model_name=xgb_model_name, ...)
\* clarify_processor.run_post_training_bias(...)
RunPostTrainingBias ==
    /\ Call("post_training_bias")
    /\ configs' = ("bias_posttrain_data_config" :> DataConfig(train_data)) @@ configs
    /\ UNCHANGED local

\* A Clarify job ends and leaves its report under its output path.
ClarifyReturn ==
    \E step \in DOMAIN ReportOf :
        /\ Return(step)
        /\ s3' = (ReportOf[step] :> [kind |-> "report", job |-> step]) @@ s3
        /\ UNCHANGED << Frames, local, configs, model, endpoint >>

\* S3Downloader.download(local_path=..., s3_uri=<output path of the job>)
Download ==
    \E step \in DOMAIN Fetches :
        /\ Call(step)
        /\ UNCHANGED << local, configs >>

DownloadReturn ==
    \E step \in DOMAIN Fetches :
        /\ Return(step)
        /\ local' = (Fetches[step] :> s3[Fetches[step]]) @@ local
        /\ UNCHANGED << Frames, s3, configs, model, endpoint >>

\* tuner.fit({"train": train_input, "validation": validation_input}, ...)
\* describe_hyper_parameter_tuning_job(...)["HyperParameterTuningJobStatus"]
Tune ==
    \E step \in {"fit", "describe"} :
        /\ Call(step)
        /\ UNCHANGED << local, configs >>

TuneReturn ==
    \E step \in {"fit", "describe"} :
        /\ Return(step)
        /\ UNCHANGED << Frames, local, s3, configs, model, endpoint >>

\* xgb_predictor = tuner.deploy(..., model_name=xgb_model_name)
Deploy ==
    /\ Call("deploy")
    /\ UNCHANGED << local, configs >>

DeployReturn ==
    /\ Return("deploy")
    /\ model' = TRUE
    /\ endpoint' = TRUE
    /\ UNCHANGED << Frames, local, s3, configs >>

\* test_features = validation_data.drop(["FinalGrade"], axis=1)
\* explainability_data_config = clarify.DataConfig(...)
\* shap_config = clarify.SHAPConfig(baseline=[test_features.iloc[0]...], ...)
DefineShapConfig ==
    /\ pc = "shap_config"
    /\ LET test_features == Drop(validation_data, "FinalGrade")
       IN  configs' = ("explainability_data_config" :> DataConfig(train_data))
                        @@ ("shap_config" :> [baseline |-> test_features.values[1]])
                        @@ configs
    /\ pc' = After("shap_config")
    /\ UNCHANGED << source, inflight, Frames, local, s3, log, model, endpoint >>

\* xgb_predictor.delete_model()
DeleteModel ==
    /\ Call("delete_model")
    /\ UNCHANGED << local, configs >>

DeleteModelReturn ==
    /\ Return("delete_model")
    /\ model' = FALSE
    /\ UNCHANGED << Frames, local, s3, configs, endpoint >>

\* xgb_predictor.delete_endpoint(delete_endpoint_config=True)
DeleteEndpoint ==
    /\ Call("delete_endpoint")
    /\ UNCHANGED << local, configs >>

DeleteEndpointReturn ==
    /\ Return("delete_endpoint")
    /\ endpoint' = FALSE
    /\ UNCHANGED << Frames, local, s3, configs, model >>

\* !rm -rf train_data.csv validation_data.csv
RemoveLocalFiles ==
    /\ pc = "rm_local"
    /\ local' = [f \in DOMAIN local \ {"train_data.csv", "validation_data.csv"}
                    |-> local[f]]
    /\ pc' = After("rm_local")
    /\ UNCHANGED << source, inflight, Frames, s3, configs, log, model, endpoint >>

\* A remote call fails: the exception of the SDK ends the run.
Raise ==
    /\ inflight \in RemoteSteps
    /\ Stop(inflight)

Next ==
    \/ ReadCsv \/ ReadCsvReturn
    \/ Preprocess
    \/ Split \/ SplitRaise
    \/ UploadTrain \/ UploadTrainReturn
    \/ UploadValidation \/ UploadValidationReturn
    \/ DefineDataConfig
    \/ RunClarify \/ RunPostTrainingBias \/ ClarifyReturn
    \/ Download \/ DownloadReturn
    \/ Tune \/ TuneReturn
    \/ Deploy \/ DeployReturn
    \/ DefineShapConfig
    \/ DeleteModel \/ DeleteModelReturn
    \/ DeleteEndpoint \/ DeleteEndpointReturn
    \/ RemoveLocalFiles
    \/ Raise

Spec == Init /\ [][Next]_vars

\* The same run on the longer tables of plain rows.
SpecSplit == InitSplit /\ [][Next]_vars

(***************************************************************************)
(* Properties                                                              *)
(***************************************************************************)
Happened(e, step) == Event(e, step) \in Range(log)

\* The position of an event in the log (0 when it has not happened).
At(e, step) ==
    IF Happened(e, step)
    THEN CHOOSE i \in DOMAIN log : log[i] = Event(e, step)
    ELSE 0

Times(e, step) == Cardinality({i \in DOMAIN log : log[i] = Event(e, step)})

\* The remote steps of the workflow, in the order the notebook documents.
Workflow ==
    << "upload_train", "upload_validation", "pre_training_bias", "fit",
       "deploy", "post_training_bias", "explainability", "delete_model",
       "delete_endpoint" >>

\* C1: the remote steps are called in the order upload, pre-training bias,
\* tuning, deploy, post-training bias, explainability, cleanup, each one
\* only after the one before it has returned and each at most once; the
\* bias jobs are one before the tuning call and one after its return; the
\* post-training bias and explainability jobs are submitted and run only
\* while the model and the endpoint exist.
C1_RemoteStepsInOrder ==
    /\ \A k \in 1..(Len(Workflow) - 1) :
          Happened("call", Workflow[k + 1]) =>
              /\ Happened("return", Workflow[k])
              /\ At("return", Workflow[k]) < At("call", Workflow[k + 1])
    /\ \A k \in DOMAIN Workflow : Times("call", Workflow[k]) <= 1
    /\ Happened("call", "fit") =>
          /\ Times("call", "pre_training_bias") = 1
          /\ At("return", "pre_training_bias") < At("call", "fit")
          /\ Happened("call", "post_training_bias") =>
                At("return", "fit") < At("call", "post_training_bias")
    /\ inflight \in {"post_training_bias", "explainability"} =>
          model /\ endpoint

\* A run that reached the end of the notebook.
C1_Witness ==
    /\ pc = "done"
    /\ \A k \in DOMAIN Workflow : Happened("return", Workflow[k])
    /\ ~model /\ ~endpoint

\* The row of the input table that has the index label l.
Student(l) == data[l + 1]

FirstIsTarget(frame) ==
    /\ Head(frame.columns) = "FinalGrade"
    /\ \A k \in 2..Len(frame.columns) : frame.columns[k] # "FinalGrade"
    /\ \A i \in DOMAIN frame.values :
          Head(frame.values[i]) = Student(frame.index[i])[Pos("FinalGrade")]

\* C2: FinalGrade is the first column, and holds each row's final grade, in
\* df, in train_data and validation_data, and in the two uploaded CSVs.
C2_TargetIsFirstColumn ==
    /\ df # NoFrame => FirstIsTarget(df)
    /\ train_data # NoFrame =>
          FirstIsTarget(train_data) /\ FirstIsTarget(validation_data)
    /\ \A f \in {<< "train/train_data.csv", train_data >>,
                 << "validation/validation_data.csv", validation_data >>} :
          f[1] \in DOMAIN s3 =>
              /\ Head(s3[f[1]].header) = "FinalGrade"
              /\ Len(s3[f[1]].lines) = Len(f[2].index)
              /\ \A i \in DOMAIN s3[f[1]].lines :
                    Head(s3[f[1]].lines[i])
                        = Student(f[2].index[i])[Pos("FinalGrade")]

\* Both CSVs of a table of three rows or more are uploaded.
C2_Witness ==
    /\ "validation/validation_data.csv" \in DOMAIN s3
    /\ "train/train_data.csv" \in DOMAIN s3
    /\ Len(data) >= 3

\* The table with the two period grades of every row overwritten.
Regraded(students) ==
    [i \in DOMAIN students |->
        [students[i] EXCEPT ![Pos("FirstGrade")] = "0",
                            ![Pos("SecondGrade")] = "0"]]

DataConfigs ==
    {"data_config", "bias_posttrain_data_config", "explainability_data_config"}

\* C3: no column named after G1 or G2 is in df, X, train_data,
\* validation_data or the headers of a DataConfig, and df and X do not
\* depend on the two grades: they are what the preprocessing yields for the
\* table with both grades overwritten.
C3_PeriodGradesExcluded ==
    /\ \A frame \in {df, X, train_data, validation_data} :
          Range(frame.columns) \cap {"FirstGrade", "SecondGrade", "G1", "G2"} = {}
    /\ \A c \in DataConfigs \cap DOMAIN configs :
          Range(configs[c].headers) \cap {"FirstGrade", "SecondGrade", "G1", "G2"} = {}
    /\ df # NoFrame =>
          LET r == _preprocess_data(Regraded(data))
          IN  df = r.df /\ X = r.X

\* All three DataConfigs exist, for a table whose grades are not the
\* overwritten ones.
C3_Witness ==
    /\ DataConfigs \subseteq DOMAIN configs
    /\ Len(data) >= 2
    /\ Regraded(data) # data

\* C6: train_data and validation_data are disjoint, together hold every
\* row of df, each row with the columns and values it has in df, and
\* validation_data holds a fifth of the rows rounded up.
C6_SplitPartitionsRows ==
    train_data # NoFrame =>
        LET n  == Len(df.index)
            tr == Range(train_data.index)
            va == Range(validation_data.index)
            Same(frame) ==
                /\ frame.columns = df.columns
                /\ \A i \in DOMAIN frame.index :
                      \E j \in DOMAIN df.index :
                          /\ df.index[j] = frame.index[i]
                          /\ df.values[j] = frame.values[i]
        IN  /\ tr \cap va = {}
            /\ tr \cup va = Range(df.index)
            /\ Len(train_data.index) + Len(validation_data.index) = n
            /\ Same(train_data) /\ Same(validation_data)
            /\ 5 * Len(validation_data.index) >= n
            /\ 5 * (Len(validation_data.index) - 1) < n

\* Six rows are split into four and two.
C6_Witness ==
    /\ pc = "done"
    /\ Len(df.index) = 6
    /\ Len(validation_data.index) = 2
    /\ Len(train_data.index) = 4

\* The dictionary of a mapped column.
DictOf(c) == (CHOOSE st \in Range(Statements) : st.col = c /\ st.op = "map").dict

\* C7: in each of the eleven mapped columns a cell that is a key of the
\* column's dictionary becomes the dictionary's value, 1 or 0, and any
\* other cell becomes the missing value; the preprocessing does not fail
\* and X, y and df keep every row.
C7_UnmappedValueIsMissing ==
    /\ MappedColumns = {"Gender", "Address", "FamilySize", "ParentCohabStatus",
                        "SchoolSup", "FamilySup", "ExtraPaidClasses", "Nursery",
                        "WantsHigherEdu", "HasInternet", "Romantic"}
    /\ ~Happened("raise", "preprocess")
    /\ df # NoFrame =>
          /\ Len(df.values) = Len(data)
          /\ Len(X.values) = Len(data)
          /\ Len(y) = Len(data)
          /\ \A c \in MappedColumns :
                LET dict == DictOf(c)
                    in   == Column(data, c)
                    out  == FrameColumn(df, c)
                IN  /\ \A i \in DOMAIN data :
                          /\ in[i] \in DOMAIN dict =>
                                out[i] = dict[in[i]] /\ out[i] \in {"1", "0"}
                          /\ in[i] \notin DOMAIN dict => out[i] = NaN
                    /\ FrameColumn(X, c) = out

\* A table with a cell that is no key, in a row next to a row of keys.
C7_Witness ==
    /\ df # NoFrame
    /\ Len(data) >= 2
    /\ \E c \in MappedColumns :
          /\ data[1][Pos(c)] = "?"
          /\ FrameColumn(df, c)[1] = NaN
          /\ FrameColumn(df, c)[2] = "0"

\* The values of a nominal column that are not missing.
Occurring(c) == Range(Column(data, c)) \ {NaN}

Dummy(c, v) == c \o "_" \o v

\* The columns of a prefix that are set in a row of df.
SetIn(c, i) ==
    {v \in Occurring(c) : FrameColumn(df, Dummy(c, v))[i] = "1"}

OneHotNames ==
    /\ OneHotColumns = {"MotherJob", "FatherJob", "SchoolChoiceReason"}
    /\ Cardinality(Range(df.columns)) = Len(df.columns)
    /\ Range(df.columns) \ Range(ColumnNames)
          = UNION {{Dummy(c, v) : v \in Occurring(c)} : c \in OneHotColumns}
    /\ Range(df.columns) \cap OneHotColumns = {}

\* C8 as stated: one column per distinct value and no other, and in every
\* row exactly one column of each prefix is set, that of the row's value.
C8_ExactlyOneSetInEveryRow ==
    df # NoFrame =>
        /\ OneHotNames
        /\ \A c \in OneHotColumns : \A i \in DOMAIN data :
              SetIn(c, i) = {data[i][Pos(c)]}

\* C8, amended: one column per distinct value that is not missing and no
\* other; in a row whose value is not missing exactly the column of that
\* value is set, and in a row whose value is missing none is.
C8_OneSetUnlessMissing ==
    df # NoFrame =>
        /\ OneHotNames
        /\ \A c \in OneHotColumns : \A i \in DOMAIN data :
              SetIn(c, i) = {data[i][Pos(c)]} \ {NaN}

\* A table with a missing job next to rows with two different jobs.
C8_Witness ==
    /\ df # NoFrame
    /\ Len(data) = 3
    /\ data[1][Pos("FatherJob")] = NaN
    /\ SetIn("FatherJob", 1) = {}
    /\ SetIn("FatherJob", 2) = {"other"}
    /\ SetIn("FatherJob", 3) = {"teacher"}

AfterDeploy ==
    {"post_training_bias", "download_posttrain", "explainability",
     "download_explainability"}

\* C9: a step that fails ends the run: nothing executes after it.  When a
\* step between deploy and cleanup fails, the cleanup has not run and the
\* model and the endpoint exist; after a deploy that succeeded, one of
\* them is gone only when every step in between has returned.
C9_FailureLeavesEndpoint ==
    /\ pc = "halted" =>
          /\ log[Len(log)].ev = "raise"
          /\ Cardinality({i \in DOMAIN log : log[i].ev = "raise"}) = 1
          /\ ~ENABLED Next
          /\ log[Len(log)].step \in AfterDeploy =>
                /\ Happened("return", "deploy")
                /\ model /\ endpoint
                /\ ~Happened("call", "delete_model")
                /\ ~Happened("call", "delete_endpoint")
                /\ {"train_data.csv", "validation_data.csv"} \subseteq DOMAIN local
    /\ pc # "halted" => \A i \in DOMAIN log : log[i].ev # "raise"
    /\ (Happened("return", "deploy") /\ ~(model /\ endpoint)) =>
          \A step \in AfterDeploy : Happened("return", step)

\* The explainability job fails after a deploy that succeeded.
C9_Witness ==
    /\ pc = "halted"
    /\ Happened("raise", "explainability")
    /\ Happened("return", "deploy")
    /\ model /\ endpoint

=============================================================================
